---- MODULE Spec2Model ----
(***************************************************************************)
(* A model of easyted/ted.py: TreeEditDistanceCalculator.                  *)
(*                                                                         *)
(* Python strings are sequences of one-character strings, so that the      *)
(* regular expressions, the bracket replacement and the bracket parsers    *)
(* are computed character by character, as the code computes them.         *)
(***************************************************************************)
EXTENDS Integers, Sequences, FiniteSets, TLC

VARIABLES pc, call, result, parserCalls, treesBuilt, skeletons, nlp, files

vars == <<pc, call, result, parserCalls, treesBuilt, skeletons, nlp, files>>

(***************************************************************************)
(* Bounds of the model.                                                    *)
(***************************************************************************)
MaxDepthArg == 6
MaxTedDepth == 3
MaxStrLen == 6
MaxKids == 2

(***************************************************************************)
(* Python values that reach calculate_ted's arguments.                     *)
(***************************************************************************)
PyStr(s) == [type |-> "str", s |-> s, n |-> 0]
PyInt(n) == [type |-> "int", s |-> <<>>, n |-> n]
PyBool(n) == [type |-> "bool", s |-> <<>>, n |-> n]
PyFloat == [type |-> "float", s |-> <<>>, n |-> 0]
PyNone == [type |-> "NoneType", s |-> <<>>, n |-> 0]

\* isinstance(v, str); isinstance(v, int) (bool is a subclass of int)
IsInstanceStr(v) == v.type = "str"
IsInstanceInt(v) == v.type \in {"int", "bool"}

FULL == <<"f", "u", "l", "l">>

(***************************************************************************)
(* Character classes of the two regular expressions.                       *)
(***************************************************************************)
UpperChars ==
  {"A", "B", "C", "D", "E", "F", "G", "H", "I", "J", "K", "L", "M",
   "N", "O", "P", "Q", "R", "S", "T", "U", "V", "W", "X", "Y", "Z"}

\* [A-Z$]
IsLabelChar(c) == c \in UpperChars \cup {"$"}

\* the characters \s matches in a str pattern, which are those of str.isspace():
\* space, \t, \n, \r, \f, U+000B, U+001C..U+001F, U+0085, U+00A0, U+1680.  The
\* others (U+2000..U+200A, U+2028, U+2029, U+202F, U+205F, U+3000) cannot be
\* written in a string of this language and are left out.
Whitespace ==
  {" ", "\t", "\n", "\r", "\f", "", "", "", "", "",
   "", " ", " "}

\* \s
IsSpace(c) == c \in Whitespace

\* the end of the maximal run of [A-Z$] that starts at position i (i - 1 when empty)
RECURSIVE LabelRunEnd(_, _)
LabelRunEnd(s, i) ==
  IF i <= Len(s) /\ IsLabelChar(s[i]) THEN LabelRunEnd(s, i + 1) ELSE i - 1

\* does r'\([A-Z$]+ ' match at position i ?
LabelPatternMatchesAt(s, i) ==
  /\ i <= Len(s)
  /\ s[i] = "("
  /\ LET j == LabelRunEnd(s, i + 1)
     IN  j >= i + 1 /\ j + 1 <= Len(s) /\ s[j + 1] = " "

\* re.sub(r'\([A-Z$]+ ', '(', s): leftmost, non-overlapping matches, from position i
RECURSIVE SubLabels(_, _)
SubLabels(s, i) ==
  IF i > Len(s) THEN <<>>
  ELSE IF LabelPatternMatchesAt(s, i)
       THEN <<"(">> \o SubLabels(s, LabelRunEnd(s, i + 1) + 2)
       ELSE <<s[i]>> \o SubLabels(s, i + 1)

\* re.sub(r'\s+', '', s)
SubSpaces(s) == SelectSeq(s, LAMBDA c : ~IsSpace(c))

remove_non_terminal_labels(tree_string) ==
  LET cleaned_tree_string == SubLabels(tree_string, 1)
  IN  SubSpaces(cleaned_tree_string)

\* s.replace(old, new) for one-character old and new
Replace(s, old, new) == [i \in 1..Len(s) |-> IF s[i] = old THEN new ELSE s[i]]

clean_string(tree_string) ==
  LET cleaned_tree_string == remove_non_terminal_labels(tree_string)
  IN  Replace(Replace(cleaned_tree_string, ")", "}"), "(", "{")

(***************************************************************************)
(* nltk.tree.Tree values: a node is a Tree (label, children) or a token    *)
(* (a str child).                                                          *)
(***************************************************************************)
Tok(w) == [leaf |-> TRUE, label |-> w, kids |-> <<>>]
Tr(l, kids) == [leaf |-> FALSE, label |-> l, kids |-> kids]

\* `not tree`: a Tree is a list, false when it has no children; a str is false when empty
IsFalsy(tree) == IF tree.leaf THEN tree.label = <<>> ELSE tree.kids = <<>>

Max(a, b) == IF a >= b THEN a ELSE b

RECURSIVE MaxOver(_, _)
MaxOver(xs, acc) == IF xs = <<>> THEN acc ELSE MaxOver(Tail(xs), Max(acc, Head(xs)))

\* Tree.height(): 1 + the greatest child height, a token counting 1
RECURSIVE Height(_)
Height(tree) ==
  1 + MaxOver([i \in 1..Len(tree.kids) |->
                 IF tree.kids[i].leaf THEN 1 ELSE Height(tree.kids[i])], 0)

RECURSIVE Concat(_)
Concat(ss) == IF ss = <<>> THEN <<>> ELSE Head(ss) \o Concat(Tail(ss))

\* Tree.leaves(): the tokens under the node, left to right
RECURSIVE Leaves(_)
Leaves(tree) ==
  Concat([i \in 1..Len(tree.kids) |->
            IF tree.kids[i].leaf THEN <<tree.kids[i].label>> ELSE Leaves(tree.kids[i])])

\* sep.join(ss)
RECURSIVE Join(_, _)
Join(ss, sep) ==
  IF ss = <<>> THEN <<>>
  ELSE IF Len(ss) = 1 THEN Head(ss)
  ELSE Head(ss) \o sep \o Join(Tail(ss), sep)

\* Tree._pformat_flat(): "(label child child ...)" on one line
RECURSIVE PFormatFlat(_)
PFormatFlat(tree) ==
  <<"(">> \o tree.label \o <<" ">>
    \o Join([i \in 1..Len(tree.kids) |->
               IF tree.kids[i].leaf THEN tree.kids[i].label
               ELSE PFormatFlat(tree.kids[i])], <<" ">>)
    \o <<")">>

\* Tree.pformat's default margin
Margin == 70

Spaces(n) == [i \in 1..n |-> " "]

\* Tree.pformat(margin, indent): one line when it fits, else the label and one
\* child per line, each indented by two more columns
RECURSIVE PFormat(_, _)
PFormat(tree, indent) ==
  LET s == PFormatFlat(tree)
  IN  IF Len(s) + indent < Margin THEN s
      ELSE <<"(">> \o tree.label
             \o Concat([i \in 1..Len(tree.kids) |->
                  <<"\n">> \o Spaces(indent + 2)
                    \o (IF tree.kids[i].leaf THEN tree.kids[i].label
                        ELSE PFormat(tree.kids[i], indent + 2))])
             \o <<")">>

\* str(tree) of an nltk Tree
TreeStr(tree) == PFormat(tree, 0)

nltk_tree_to_bracket_string(tree) ==
  LET tree_string == TreeStr(tree)
      cleaned_tree_string == remove_non_terminal_labels(tree_string)
  IN  Replace(Replace(cleaned_tree_string, ")", "}"), "(", "{")

(***************************************************************************)
(* The outcome of a call: a returned string or a raised exception.         *)
(***************************************************************************)
Returns(s) == [ok |-> TRUE, str |-> s, exc |-> "none"]
Raises(e) == [ok |-> FALSE, str |-> <<>>, exc |-> e]

\* the outcomes of the children, concatenated; the first exception wins
RECURSIVE ConcatOutcomes(_, _)
ConcatOutcomes(outs, acc) ==
  IF outs = <<>> THEN Returns(acc)
  ELSE IF ~Head(outs).ok THEN Head(outs)
  ELSE ConcatOutcomes(Tail(outs), acc \o Head(outs).str)

\* a faulty variant of nltk_tree_to_n_bracket_string: the recursion both counts the depth
\* up and the limit down
RECURSIVE n_bracket_string_double_count(_, _, _)
n_bracket_string_double_count(tree, max_depth, current_depth) ==
  IF max_depth.type = "str" THEN Raises("TypeError")
  ELSE IF (max_depth.type # "NoneType" /\ current_depth > max_depth.n) \/ IsFalsy(tree)
  THEN Returns(<<>>)
  ELSE IF tree.leaf THEN Raises("AttributeError")
  ELSE LET head == <<"(">> \o tree.label \o <<" ">>
           next == IF max_depth.type = "NoneType" THEN max_depth
                   ELSE [max_depth EXCEPT !.n = max_depth.n - 1]
       IN  IF Height(tree) > 2
           THEN LET body == ConcatOutcomes(
                              [i \in 1..Len(tree.kids) |->
                                 n_bracket_string_double_count(
                                   tree.kids[i], next, current_depth + 1)], <<>>)
                IN  IF body.ok THEN Returns(head \o body.str \o <<")">>) ELSE body
           ELSE Returns(head \o Join(Leaves(tree), <<" ">>) \o <<")">>)

\* line 84: `current_depth > max_depth` raises TypeError when max_depth is a str;
\* line 87: a token (str) has no label(), AttributeError
RECURSIVE nltk_tree_to_n_bracket_string(_, _, _)
nltk_tree_to_n_bracket_string(tree, max_depth, current_depth) ==
  IF max_depth.type = "str" THEN Raises("TypeError")
  ELSE IF (max_depth.type # "NoneType" /\ current_depth > max_depth.n) \/ IsFalsy(tree)
  THEN Returns(<<>>)
  ELSE IF tree.leaf THEN Raises("AttributeError")
  ELSE LET head == <<"(">> \o tree.label \o <<" ">>
       IN  IF Height(tree) > 2
           THEN LET body == ConcatOutcomes(
                              [i \in 1..Len(tree.kids) |->
                                 nltk_tree_to_n_bracket_string(
                                   tree.kids[i], max_depth, current_depth + 1)], <<>>)
                IN  IF body.ok THEN Returns(head \o body.str \o <<")">>) ELSE body
           ELSE Returns(head \o Join(Leaves(tree), <<" ">>) \o <<")">>)

(***************************************************************************)
(* apted.helpers.Tree and APTED with the default Config (unit costs).      *)
(* APTED returns the exact ordered tree edit distance; it is computed here *)
(* by the dynamic programme over postorder prefixes of the two trees.      *)
(***************************************************************************)
Node(name, children) == [name |-> name, children |-> children]

TreeReturns(t) == [ok |-> TRUE, tree |-> t, exc |-> "none"]
TreeRaises(e) == [ok |-> FALSE, tree |-> Node(<<>>, <<>>), exc |-> e]

Last(xs) == xs[Len(xs)]
Front(xs) == SubSeq(xs, 1, Len(xs) - 1)

\* how many entries at the end of tree_stack hold a depth greater than d
RECURSIVE DeeperSuffix(_, _)
DeeperSuffix(tree_stack, d) ==
  IF tree_stack # <<>> /\ Last(tree_stack).depth > d
  THEN 1 + DeeperSuffix(Front(tree_stack), d)
  ELSE 0

\* Tree.from_text, the loop over the letters from position i on; stack holds the
\* names of the open nodes, tree_stack the finished nodes with their depths
RECURSIVE FromTextLoop(_, _, _, _)
FromTextLoop(text, i, stack, tree_stack) ==
  IF i > Len(text)
  THEN IF tree_stack = <<>> THEN TreeRaises("IndexError")
       ELSE TreeReturns(tree_stack[1].tree)
  ELSE IF text[i] = "{"
  THEN FromTextLoop(text, i + 1, Append(stack, <<>>), tree_stack)
  ELSE IF stack = <<>> THEN TreeRaises("IndexError")
  ELSE IF text[i] = "}"
  THEN LET name == Last(stack)
           rest == Front(stack)
           k == DeeperSuffix(tree_stack, Len(rest))
           n == Len(tree_stack)
           children == [j \in 1..k |-> tree_stack[n - k + j].tree]
       IN  FromTextLoop(text, i + 1, rest,
             Append(SubSeq(tree_stack, 1, n - k),
                    [tree |-> Node(name, children), depth |-> Len(rest)]))
  ELSE FromTextLoop(text, i + 1,
         [stack EXCEPT ![Len(stack)] = @ \o <<text[i]>>], tree_stack)

\* str.strip(): the whitespace at both ends is taken off
RECURSIVE Strip(_)
Strip(s) ==
  IF s = <<>> THEN s
  ELSE IF IsSpace(s[1]) THEN Strip(SubSeq(s, 2, Len(s)))
  ELSE IF IsSpace(s[Len(s)]) THEN Strip(SubSeq(s, 1, Len(s) - 1))
  ELSE s

\* for letter in text.strip(): ...; return tree_stack[0][0]
from_text(text) == FromTextLoop(Strip(text), 1, <<>>, <<>>)

\* Config.delete, Config.insert
DeleteCost == 1
InsertCost == 1

\* a faulty variant of rename: no pair of nodes is free to rename
rename_never_free(node1, node2) == 1

\* a faulty variant of rename: renaming costs as much as the first name is long
rename_by_length(node1, node2) ==
  IF node1.name # node2.name THEN Len(node1.name) ELSE 0

\* Config.rename: int(node1.name != node2.name)
rename(node1, node2) == IF node1.name # node2.name THEN 1 ELSE 0

Min(a, b) == IF a <= b THEN a ELSE b

Min3(a, b, c) == Min(Min(a, b), c)

\* the nodes of a forest in postorder, each with the postorder index of its
\* leftmost leaf; offset nodes come before the forest
RECURSIVE PostOrder(_, _)
PostOrder(forest, offset) ==
  IF forest = <<>> THEN <<>>
  ELSE LET below == PostOrder(Head(forest).children, offset)
           me == [name |-> Head(forest).name, lml |-> offset + 1]
       IN  below \o <<me>> \o PostOrder(Tail(forest), offset + Len(below) + 1)

\* the forest distances of the subtrees rooted at x (in p) and y (in q): cell
\* <<i, j>> holds the distance of the nodes lml(x)..i of p to the nodes lml(y)..j
\* of q.  The cells are filled row by row from cell k on; td holds the distances
\* of the pairs of subtrees computed before
RECURSIVE ForestDist(_, _, _, _, _, _, _)
ForestDist(p, q, x, y, td, k, fd) ==
  LET lx == p[x].lml
      ly == q[y].lml
      width == y - ly + 2
      i == lx - 1 + (k \div width)
      j == ly - 1 + (k % width)
      value ==
        IF i < lx /\ j < ly THEN 0
        ELSE IF j < ly THEN fd[<<i - 1, j>>] + DeleteCost
        ELSE IF i < lx THEN fd[<<i, j - 1>>] + InsertCost
        ELSE IF p[i].lml = lx /\ q[j].lml = ly
        THEN Min3(fd[<<i - 1, j>>] + DeleteCost,
                  fd[<<i, j - 1>>] + InsertCost,
                  fd[<<i - 1, j - 1>>] + rename(p[i], q[j]))
        ELSE Min3(fd[<<i - 1, j>>] + DeleteCost,
                  fd[<<i, j - 1>>] + InsertCost,
                  fd[<<p[i].lml - 1, q[j].lml - 1>>] + td[<<i, j>>])
  IN  IF k >= (x - lx + 2) * width THEN fd
      ELSE ForestDist(p, q, x, y, td, k + 1, [fd EXCEPT ![<<i, j>>] = value])

\* the distances of all pairs of subtrees, the pairs taken in postorder from
\* pair k on
RECURSIVE TreeDist(_, _, _, _)
TreeDist(p, q, k, td) ==
  LET x == 1 + (k \div Len(q))
      y == 1 + (k % Len(q))
      zero == [c \in (0..Len(p)) \X (0..Len(q)) |-> 0]
  IN  IF k >= Len(p) * Len(q) THEN td
      ELSE TreeDist(p, q, k + 1,
             [td EXCEPT ![<<x, y>>] = ForestDist(p, q, x, y, td, 0, zero)[<<x, y>>]])

\* APTED(tree1, tree2).compute_edit_distance()
compute_edit_distance(tree1, tree2) ==
  LET p == PostOrder(<<tree1>>, 0)
      q == PostOrder(<<tree2>>, 0)
      zero == [c \in (0..Len(p)) \X (0..Len(q)) |-> 0]
  IN  TreeDist(p, q, 0, zero)[<<Len(p), Len(q)>>]

(***************************************************************************)
(* nltk.tree.Tree.fromstring with its default brackets and patterns.       *)
(***************************************************************************)
NltkReturns(t) == [ok |-> TRUE, tree |-> t, exc |-> "none"]
NltkRaises(e) == [ok |-> FALSE, tree |-> Tr(<<>>, <<>>), exc |-> e]

\* [^\s\(\)]
IsWordChar(c) == ~IsSpace(c) /\ c \notin {"(", ")"}

\* the end of the maximal run of word characters that starts at i (i - 1 when empty)
RECURSIVE WordEnd(_, _)
WordEnd(s, i) == IF i <= Len(s) /\ IsWordChar(s[i]) THEN WordEnd(s, i + 1) ELSE i - 1

\* the first position from i on that holds no whitespace
RECURSIVE SkipSpaces(_, _)
SkipSpaces(s, i) == IF i <= Len(s) /\ IsSpace(s[i]) THEN SkipSpaces(s, i + 1) ELSE i

\* the token loop of fromstring from position i on; stack[1] is the (None, [])
\* entry that receives the finished tree
RECURSIVE FromStringLoop(_, _, _)
FromStringLoop(s, i, stack) ==
  IF i > Len(s)
  THEN IF Len(stack) > 1 \/ stack[1].kids = <<>> THEN NltkRaises("ValueError")
       ELSE NltkReturns(stack[1].kids[1])
  ELSE IF s[i] = "("
  THEN LET b == SkipSpaces(s, i + 1)
           e == WordEnd(s, b)
       IN  IF Len(stack) = 1 /\ stack[1].kids # <<>> THEN NltkRaises("ValueError")
           ELSE FromStringLoop(s, e + 1, Append(stack, Tr(SubSeq(s, b, e), <<>>)))
  ELSE IF s[i] = ")"
  THEN IF Len(stack) = 1 THEN NltkRaises("ValueError")
       ELSE LET n == Len(stack)
            IN  FromStringLoop(s, i + 1,
                  [Front(stack) EXCEPT ![n - 1].kids = Append(@, stack[n])])
  ELSE IF IsSpace(s[i]) THEN FromStringLoop(s, i + 1, stack)
  ELSE LET e == WordEnd(s, i)
       IN  IF Len(stack) = 1 THEN NltkRaises("ValueError")
           ELSE FromStringLoop(s, e + 1,
                  [stack EXCEPT ![Len(stack)].kids = Append(@, Tok(SubSeq(s, i, e)))])

NLTKTree_fromstring(s) == FromStringLoop(s, 1, <<Tr(<<>>, <<>>)>>)

(***************************************************************************)
(* The parser: stanza's pipeline, seen through the trees it returns for    *)
(* the sentences of a small treebank.  A token sits under a pre-terminal.  *)
(***************************************************************************)
Pre(l, w) == Tr(l, <<Tok(w)>>)

S_ == <<"S">>
NP == <<"N", "P">>
VP == <<"V", "P">>
DT == <<"D", "T">>
NN == <<"N", "N">>
VBZ == <<"V", "B", "Z">>

w_the == <<"t", "h", "e">>
w_cat == <<"c", "a", "t">>
w_dog == <<"d", "o", "g">>
w_sat == <<"s", "a", "t">>
w_I == <<"I">>
w_run == <<"r", "u", "n">>
w_Constantinople ==
  <<"C", "o", "n", "s", "t", "a", "n", "t", "i", "n", "o", "p", "l", "e">>
w_capitulated == <<"c", "a", "p", "i", "t", "u", "l", "a", "t", "e", "d">>
w_unconditionally ==
  <<"u", "n", "c", "o", "n", "d", "i", "t", "i", "o", "n", "a", "l", "l", "y">>

\* (S (NP (DT a)) (VP (V b)))
TreeAB == Tr(S_, <<Tr(NP, <<Pre(DT, <<"a">>)>>), Tr(VP, <<Pre(<<"V">>, <<"b">>)>>)>>)
\* (S (NP (DT a)) (VP (V c)))
TreeAC == Tr(S_, <<Tr(NP, <<Pre(DT, <<"a">>)>>), Tr(VP, <<Pre(<<"V">>, <<"c">>)>>)>>)
\* (S (NP (DT the) (NN cat)) (VP (VBZ sat)))
TreeCat == Tr(S_, <<Tr(NP, <<Pre(DT, w_the), Pre(NN, w_cat)>>), Tr(VP, <<Pre(VBZ, w_sat)>>)>>)
\* (S (NP (DT the) (NN dog)) (VP (VBZ sat)))
TreeDog == Tr(S_, <<Tr(NP, <<Pre(DT, w_the), Pre(NN, w_dog)>>), Tr(VP, <<Pre(VBZ, w_sat)>>)>>)
\* (ROOT (S (NP (PRP I)) (VP (VBP run)) (. .)))
TreeRun ==
  Tr(<<"R", "O", "O", "T">>,
     <<Tr(S_, <<Tr(NP, <<Pre(<<"P", "R", "P">>, w_I)>>),
                Tr(VP, <<Pre(<<"V", "B", "P">>, w_run)>>),
                Pre(<<".">>, <<".">>)>>)>>)
\* (NN cat)
TreeWord == Pre(NN, w_cat)
\* (NN dog)
TreeWordDog == Pre(NN, w_dog)
\* (S (NP (NNP Constantinople)) (VP (VBD capitulated) (ADVP (RB unconditionally))))
TreeLong ==
  Tr(S_, <<Tr(NP, <<Pre(<<"N", "N", "P">>, w_Constantinople)>>),
           Tr(VP, <<Pre(<<"V", "B", "D">>, w_capitulated),
                    Tr(<<"A", "D", "V", "P">>, <<Pre(<<"R", "B">>, w_unconditionally)>>)>>)>>)

\* (S (NP (NNP Constantinople)) (VP (VBD capitulated) (ADVP (RB now))))
TreeShort ==
  Tr(S_, <<Tr(NP, <<Pre(<<"N", "N", "P">>, w_Constantinople)>>),
           Tr(VP, <<Pre(<<"V", "B", "D">>, w_capitulated),
                    Tr(<<"A", "D", "V", "P">>, <<Pre(<<"R", "B">>, <<"n", "o", "w">>)>>)>>)>>)

Treebank ==
  {TreeAB, TreeAC, TreeCat, TreeDog, TreeRun, TreeWord, TreeWordDog, TreeLong, TreeShort}

\* the sentence of a tree: its tokens, joined by spaces
SentenceOf(tree) == Join(Leaves(tree), <<" ">>)

Sentences == {SentenceOf(t) : t \in Treebank}

\* self.nlp(sentence), doc.sentences[0].constituency
get_constituency_tree(sentence) == CHOOSE t \in Treebank : SentenceOf(t) = sentence

\* str() of a stanza tree: the bracketed form on one line
StanzaStr(tree) == PFormatFlat(tree)

\* get_nltk_tree: the parser's tree, handed on as it is
get_nltk_tree(sentence) == get_constituency_tree(sentence)

\* get_bracketed_string: the parser's tree goes to nltk_tree_to_bracket_string,
\* whose str(tree) is then the one-line form of a stanza tree
get_bracketed_string(sentence) ==
  LET tree == get_constituency_tree(sentence)
      tree_string == StanzaStr(tree)
      cleaned_tree_string == remove_non_terminal_labels(tree_string)
  IN  Replace(Replace(cleaned_tree_string, ")", "}"), "(", "{")

(***************************************************************************)
(* calculate_ted.                                                          *)
(***************************************************************************)
\* a faulty variant of DepthIsRejected: the sign of an integer depth is not looked at
depth_rejected_by_type_only(depth) ==
  ~(IsInstanceStr(depth) \/ IsInstanceInt(depth))

\* line 165: not isinstance(depth, (str, int)) or (isinstance(depth, int) and depth < 0)
DepthIsRejected(depth) ==
  \/ ~(IsInstanceStr(depth) \/ IsInstanceInt(depth))
  \/ (IsInstanceInt(depth) /\ depth.n < 0)

\* what a call of calculate_ted leaves behind: the value returned or the exception
\* raised, the stage that raised it, how often the parser ran, how many nltk trees
\* were built, and the skeleton strings handed to APTED
TedOutcome(kind, value, exc, stage, parses, trees, skels) ==
  [kind |-> kind, value |-> value, exc |-> exc, stage |-> stage,
   parserCalls |-> parses, treesBuilt |-> trees, skeletons |-> skels]

\* lines 176-177: the full rendering when max_depth is None, else the depth-limited one
TreeString(nltk_tree, max_depth) ==
  IF max_depth = PyNone THEN Returns(nltk_tree_to_bracket_string(nltk_tree))
  ELSE nltk_tree_to_n_bracket_string(nltk_tree, max_depth, 0)

calculate_ted(sent1, sent2, depth) ==
  IF ~IsInstanceStr(sent1) \/ ~IsInstanceStr(sent2)
  THEN TedOutcome("raise", 0, "TypeError", "validation", 0, 0, <<>>)
  ELSE IF DepthIsRejected(depth)
  THEN TedOutcome("raise", 0, "TypeError", "validation", 0, 0, <<>>)
  ELSE
    LET cons_tree1 == get_constituency_tree(sent1.s)
        cons_tree2 == get_constituency_tree(sent2.s)
        nltk_tree1 == NLTKTree_fromstring(StanzaStr(cons_tree1))
        nltk_tree2 == NLTKTree_fromstring(StanzaStr(cons_tree2))
        max_depth == IF depth = PyStr(FULL) THEN PyNone ELSE depth
    IN
    IF ~nltk_tree1.ok
    THEN TedOutcome("raise", 0, nltk_tree1.exc, "trees", 2, 0, <<>>)
    ELSE IF ~nltk_tree2.ok
    THEN TedOutcome("raise", 0, nltk_tree2.exc, "trees", 2, 1, <<>>)
    ELSE
      LET tree_string1 == TreeString(nltk_tree1.tree, max_depth)
          tree_string2 == TreeString(nltk_tree2.tree, max_depth)
      IN
      IF ~tree_string1.ok
      THEN TedOutcome("raise", 0, tree_string1.exc, "canonicalize", 2, 2, <<>>)
      ELSE IF ~tree_string2.ok
      THEN TedOutcome("raise", 0, tree_string2.exc, "canonicalize", 2, 2, <<>>)
      ELSE
        LET skeleton1 == clean_string(tree_string1.str)
            skeleton2 == clean_string(tree_string2.str)
            apted_tree1 == from_text(skeleton1)
            apted_tree2 == from_text(skeleton2)
        IN
        IF ~apted_tree1.ok
        THEN TedOutcome("raise", 0, apted_tree1.exc, "engine", 2, 2,
                        <<skeleton1, skeleton2>>)
        ELSE IF ~apted_tree2.ok
        THEN TedOutcome("raise", 0, apted_tree2.exc, "engine", 2, 2,
                        <<skeleton1, skeleton2>>)
        ELSE TedOutcome("return",
                        compute_edit_distance(apted_tree1.tree, apted_tree2.tree),
                        "none", "done", 2, 2, <<skeleton1, skeleton2>>)

(***************************************************************************)
(* The state machine.  A call is drawn when the calculator is constructed  *)
(* and the action of its method runs the whole method.                     *)
(***************************************************************************)
NoTree == Tr(<<>>, <<>>)

TedCall(sent1, sent2, depth) ==
  [op |-> "calculate_ted", sent1 |-> sent1, sent2 |-> sent2, depth |-> depth,
   tree |-> NoTree, text |-> <<>>, filepath |-> <<>>]
TreeCall(op, tree, max_depth) ==
  [op |-> op, sent1 |-> PyNone, sent2 |-> PyNone, depth |-> max_depth,
   tree |-> tree, text |-> <<>>, filepath |-> <<>>]
TextCall(op, text) ==
  [op |-> op, sent1 |-> PyNone, sent2 |-> PyNone, depth |-> PyNone,
   tree |-> NoTree, text |-> text, filepath |-> <<>>]
\* a call of a method that takes one sentence (and, to draw, a file path)
SentenceCall(op, sentence, filepath) ==
  [op |-> op, sent1 |-> sentence, sent2 |-> PyNone, depth |-> PyNone,
   tree |-> NoTree, text |-> <<>>, filepath |-> filepath]

NoResult ==
  [kind |-> "none", value |-> 0, exc |-> "none", str |-> <<>>, tree |-> NoTree]

\* a returned tree; a return of None; an exception
TreeResult(tree) ==
  [kind |-> "return", value |-> 0, exc |-> "none", str |-> <<>>, tree |-> tree]
NoneResult ==
  [kind |-> "return", value |-> 0, exc |-> "none", str |-> <<>>, tree |-> NoTree]
RaiseResult(exc) ==
  [kind |-> "raise", value |-> 0, exc |-> exc, str |-> <<>>, tree |-> NoTree]

\* __init__'s language: the default and one other
Languages == {"en", "fr"}

\* stanza.Pipeline(lang=language, processors='tokenize,pos,constituency', use_gpu=True)
Pipeline(language) ==
  [lang |-> language, processors |-> "tokenize,pos,constituency", use_gpu |-> TRUE]

SentArgs == {PyStr(s) : s \in Sentences} \cup {PyNone}

DepthArgs ==
  {PyStr(FULL), PyStr(<<"a", "b", "c">>), PyFloat, PyNone, PyBool(1)}
    \cup {PyInt(n) : n \in -1..MaxTedDepth}

TedCalls == {TedCall(s1, s2, d) : s1 \in SentArgs, s2 \in SentArgs, d \in DepthArgs}

Filepaths == {<<"a", ".", "p", "s">>, <<"b", ".", "p", "s">>}

SentenceCalls ==
  {SentenceCall(op, PyStr(s), <<>>) :
     op \in {"get_constituency_tree", "get_nltk_tree", "get_bracketed_string"},
     s \in Sentences}
    \cup {SentenceCall("draw_and_save_tree", PyStr(s), f) :
            s \in Sentences, f \in Filepaths}

\* the calculator after __init__: the pipeline is built, nothing has run
Constructed(language) ==
  /\ pc = "call"
  /\ result = NoResult
  /\ parserCalls = 0
  /\ treesBuilt = 0
  /\ skeletons = <<>>
  /\ nlp = Pipeline(language)
  /\ files = {}

Init ==
  /\ \E language \in Languages : Constructed(language)
  /\ call \in TedCalls \cup SentenceCalls

Call_calculate_ted ==
  /\ pc = "call"
  /\ call.op = "calculate_ted"
  /\ LET out == calculate_ted(call.sent1, call.sent2, call.depth)
     IN  /\ result' = [kind |-> out.kind, value |-> out.value, exc |-> out.exc,
                       str |-> <<>>, tree |-> NoTree]
         /\ parserCalls' = parserCalls + out.parserCalls
         /\ treesBuilt' = treesBuilt + out.treesBuilt
         /\ skeletons' = out.skeletons
  /\ pc' = "done"
  /\ UNCHANGED <<call, nlp, files>>

Call_get_constituency_tree ==
  /\ pc = "call"
  /\ call.op = "get_constituency_tree"
  /\ result' = TreeResult(get_constituency_tree(call.sent1.s))
  /\ parserCalls' = parserCalls + 1
  /\ pc' = "done"
  /\ UNCHANGED <<call, treesBuilt, skeletons, nlp, files>>

Call_get_nltk_tree ==
  /\ pc = "call"
  /\ call.op = "get_nltk_tree"
  /\ result' = TreeResult(get_nltk_tree(call.sent1.s))
  /\ parserCalls' = parserCalls + 1
  /\ pc' = "done"
  /\ UNCHANGED <<call, treesBuilt, skeletons, nlp, files>>

Call_get_bracketed_string ==
  /\ pc = "call"
  /\ call.op = "get_bracketed_string"
  /\ result' = [NoneResult EXCEPT !.str = get_bracketed_string(call.sent1.s)]
  /\ parserCalls' = parserCalls + 1
  /\ pc' = "done"
  /\ UNCHANGED <<call, treesBuilt, skeletons, nlp, files>>

\* the tree is parsed, rebuilt by fromstring and printed to the file; the canvas
\* is taken to be available
Call_draw_and_save_tree ==
  /\ pc = "call"
  /\ call.op = "draw_and_save_tree"
  /\ LET nltk_tree == get_constituency_tree(call.sent1.s)
         t == NLTKTree_fromstring(StanzaStr(nltk_tree))
     IN  /\ parserCalls' = parserCalls + 1
         /\ IF t.ok
            THEN /\ treesBuilt' = treesBuilt + 1
                 /\ files' = files \cup {call.filepath}
                 /\ result' = NoneResult
            ELSE /\ result' = RaiseResult(t.exc)
                 /\ UNCHANGED <<treesBuilt, files>>
  /\ pc' = "done"
  /\ UNCHANGED <<call, skeletons, nlp>>

Next ==
  \/ Call_calculate_ted
  \/ Call_get_constituency_tree
  \/ Call_get_nltk_tree
  \/ Call_get_bracketed_string
  \/ Call_draw_and_save_tree

Spec == Init /\ [][Next]_vars

(***************************************************************************)
(* The codec on its own: the two renderings of a tree, over the treebank   *)
(* and over every small tree, with bare tokens beside subtrees and with    *)
(* empty subtrees.                                                         *)
(***************************************************************************)
SeqsUpTo(S, n) == UNION {[1..k -> S] : k \in 0..n}

TokenNodes == {Tok(<<"a">>), Tok(<<"b">>)}

\* (NN), (NN a), (NN a b), ...
Level2(kids) == {Tr(NN, ks) : ks \in SeqsUpTo(TokenNodes, kids)}

\* (S x ...), each x a token or a tree of Level2
Level3(kids) ==
  {Tr(S_, ks) : ks \in SeqsUpTo(Level2(kids) \cup TokenNodes, kids) \ {<<>>}}

CodecTrees(kids) == Treebank \cup Level2(kids) \cup Level3(kids)

MaxDepths(deepest) == {PyNone} \cup {PyInt(n) : n \in 0..deepest}

CodecCalls(kids, deepest) ==
  {TreeCall("nltk_tree_to_n_bracket_string", t, d) :
     t \in CodecTrees(kids), d \in MaxDepths(deepest)}
    \cup {TreeCall("nltk_tree_to_bracket_string", t, PyNone) : t \in CodecTrees(kids)}

StrResult(out) ==
  [kind |-> IF out.ok THEN "return" ELSE "raise", value |-> 0, exc |-> out.exc,
   str |-> out.str, tree |-> NoTree]

InitCodec == Constructed("en") /\ call \in CodecCalls(MaxKids, MaxDepthArg)

Call_nltk_tree_to_n_bracket_string ==
  /\ pc = "call"
  /\ call.op = "nltk_tree_to_n_bracket_string"
  /\ result' = StrResult(nltk_tree_to_n_bracket_string(call.tree, call.depth, 0))
  /\ pc' = "done"
  /\ UNCHANGED <<call, parserCalls, treesBuilt, skeletons, nlp, files>>

Call_nltk_tree_to_bracket_string ==
  /\ pc = "call"
  /\ call.op = "nltk_tree_to_bracket_string"
  /\ result' = StrResult(Returns(nltk_tree_to_bracket_string(call.tree)))
  /\ pc' = "done"
  /\ UNCHANGED <<call, parserCalls, treesBuilt, skeletons, nlp, files>>

NextCodec == Call_nltk_tree_to_n_bracket_string \/ Call_nltk_tree_to_bracket_string

SpecCodec == InitCodec /\ [][NextCodec]_vars

(***************************************************************************)
(* Label stripping on its own, over every short string of an alphabet that *)
(* holds a parenthesis pair, a label character, a token character and      *)
(* three kinds of whitespace: space, newline and U+000B.                   *)
(***************************************************************************)
Alphabet == {"(", ")", "S", "a", " ", "\n", ""}

\* the strings of one length
Strings(length) == [1..length -> Alphabet]

StripOps == {"remove_non_terminal_labels", "clean_string"}

InitStrip ==
  /\ Constructed("en")
  /\ \E op \in StripOps, length \in 0..MaxStrLen :
       \E s \in Strings(length) : call = TextCall(op, s)

Call_remove_non_terminal_labels ==
  /\ pc = "call"
  /\ call.op = "remove_non_terminal_labels"
  /\ result' = StrResult(Returns(remove_non_terminal_labels(call.text)))
  /\ pc' = "done"
  /\ UNCHANGED <<call, parserCalls, treesBuilt, skeletons, nlp, files>>

Call_clean_string ==
  /\ pc = "call"
  /\ call.op = "clean_string"
  /\ result' = StrResult(Returns(clean_string(call.text)))
  /\ pc' = "done"
  /\ UNCHANGED <<call, parserCalls, treesBuilt, skeletons, nlp, files>>

NextStrip == Call_remove_non_terminal_labels \/ Call_clean_string

SpecStrip == InitStrip /\ [][NextStrip]_vars

(***************************************************************************)
(* Vocabulary of the properties.                                           *)
(***************************************************************************)
Done(op) == pc = "done" /\ call.op = op

SentenceArg(tree) == PyStr(SentenceOf(tree))

\* the depth arguments the documentation allows: 'full' or a non-negative integer
IsValidDepth(depth) == depth = PyStr(FULL) \/ (IsInstanceInt(depth) /\ depth.n >= 0)

\* the tree of a sentence argument
ParseOf(sent) == get_constituency_tree(sent.s)

\* a tree with its tokens blanked
RECURSIVE Shape(_)
Shape(tree) ==
  IF tree.leaf THEN Tok(<<>>)
  ELSE Tr(tree.label, [i \in 1..Len(tree.kids) |-> Shape(tree.kids[i])])

\* identical shape, and token sequences that differ at exactly one position
SameShapeOneTokenApart(t1, t2) ==
  /\ Shape(t1) = Shape(t2)
  /\ Cardinality({i \in 1..Len(Leaves(t1)) : Leaves(t1)[i] # Leaves(t2)[i]}) = 1

\* the tokens of a bracketed string: its words, but for the label after each "("
RECURSIVE OutputTokens(_, _)
OutputTokens(s, i) ==
  IF i > Len(s) THEN <<>>
  ELSE IF s[i] = "(" THEN OutputTokens(s, WordEnd(s, i + 1) + 1)
  ELSE IF IsWordChar(s[i])
       THEN <<SubSeq(s, i, WordEnd(s, i))>> \o OutputTokens(s, WordEnd(s, i) + 1)
  ELSE OutputTokens(s, i + 1)

\* every node of height > 2 has only subtree children, every other node only
\* tokens, and no node is empty
RECURSIVE ParserShaped(_)
ParserShaped(tree) ==
  /\ tree.kids # <<>>
  /\ \A i \in 1..Len(tree.kids) :
       IF Height(tree) > 2
       THEN ~tree.kids[i].leaf /\ ParserShaped(tree.kids[i])
       ELSE tree.kids[i].leaf

EmptySkeleton == <<"{", "}">>

(***************************************************************************)
(* C1                                                                      *)
(***************************************************************************)
DepthZeroPair ==
  /\ Done("calculate_ted")
  /\ call.depth = PyInt(0)
  /\ IsInstanceStr(call.sent1) /\ IsInstanceStr(call.sent2)
  /\ SameShapeOneTokenApart(ParseOf(call.sent1), ParseOf(call.sent2))

\* C1 as stated: at depth 0 two trees of identical shape that differ in one token
\* keep their tokens in their skeletons and are at distance 1.  The code leaves
\* out what lies below the root: for (S (NP (DT a)) (VP (V b))) against
\* (S (NP (DT a)) (VP (V c))) both skeletons are "{}" and the distance is 0.
C1_AsStated ==
  DepthZeroPair =>
    /\ result.kind = "return"
    /\ result.value = 1
    /\ skeletons[1] # skeletons[2]

(***************************************************************************)
(* C2                                                                      *)
(***************************************************************************)
DepthLimitedCall ==
  /\ Done("nltk_tree_to_n_bracket_string")
  /\ call.depth.type = "int"

\* C2 as stated: whatever the tree and the depth, the rendering returns and every
\* leaf token of the tree appears, in left-to-right order, in the output.  The
\* code renders a subtree beyond the depth as the empty string:
\* (S (NP (DT a)) (VP (V b))) at depth 0 gives "(S )", with no token.
C2_AsStated ==
  DepthLimitedCall =>
    /\ result.kind = "return"
    /\ OutputTokens(result.str, 1) = Leaves(call.tree)

(***************************************************************************)
(* C3                                                                      *)
(***************************************************************************)
\* C3 as stated: a depth that is neither an integer nor 'full' is rejected before
\* the parser runs or a tree is built, and no call raises after work began
C3_AsStated ==
  Done("calculate_ted") =>
    /\ (~IsInstanceInt(call.depth) /\ call.depth # PyStr(FULL)) =>
         (result.kind = "raise" /\ parserCalls = 0 /\ treesBuilt = 0)
    /\ result.kind = "raise" => (parserCalls = 0 /\ treesBuilt = 0)

(***************************************************************************)
(* C4                                                                      *)
(***************************************************************************)
NegativeDepthCall ==
  /\ Done("calculate_ted")
  /\ call.depth.type = "int" /\ call.depth.n < 0
  /\ IsInstanceStr(call.sent1) /\ IsInstanceStr(call.sent2)

\* C4: a negative integer depth raises before the parser runs: no tree is built,
\* no skeleton and no distance is computed, and the pipeline is as constructed
C4_NegativeDepthRejected ==
  NegativeDepthCall =>
    /\ result = RaiseResult("TypeError")
    /\ parserCalls = 0
    /\ treesBuilt = 0
    /\ skeletons = <<>>
    /\ nlp \in {Pipeline(language) : language \in Languages}
    /\ files = {}

\* C4 witness: calculate_ted has been called with depth -1 on two sentences
C4_Witness == NegativeDepthCall /\ call.depth.n = -1 /\ call.sent1 # call.sent2

(***************************************************************************)
(* C5                                                                      *)
(***************************************************************************)
SelfComparison ==
  /\ Done("calculate_ted")
  /\ IsInstanceStr(call.sent1)
  /\ call.sent1 = call.sent2
  /\ IsValidDepth(call.depth)

\* C5: a tree compared with itself, at 'full' or any non-negative depth, gives two
\* equal skeletons and distance 0
C5_SelfDistanceZero ==
  SelfComparison =>
    /\ result.kind = "return"
    /\ result.value = 0
    /\ skeletons[1] = skeletons[2]

\* C5 witness: a sentence has been compared with itself at depth 0, where both
\* skeletons are the bare root
C5_Witness ==
  /\ SelfComparison
  /\ call.sent1 = SentenceArg(TreeCat)
  /\ call.depth = PyInt(0)
  /\ skeletons[1] = EmptySkeleton

(***************************************************************************)
(* C6                                                                      *)
(***************************************************************************)
FullDepthPair ==
  /\ Done("calculate_ted")
  /\ call.depth = PyStr(FULL)
  /\ IsInstanceStr(call.sent1) /\ IsInstanceStr(call.sent2)
  /\ SameShapeOneTokenApart(ParseOf(call.sent1), ParseOf(call.sent2))

\* C6 as stated: at 'full' depth two trees of identical bracket structure whose
\* tokens differ at one position are at distance 1
C6_AsStated == FullDepthPair => (result.kind = "return" /\ result.value = 1)

(***************************************************************************)
(* C7                                                                      *)
(***************************************************************************)
BeyondHeight ==
  /\ Done("nltk_tree_to_n_bracket_string")
  /\ call.depth.type = "int"
  /\ call.depth.n >= Height(call.tree)

\* C7: from max_depth = height(T) on, the depth-limited rendering of T no longer
\* depends on max_depth
C7_StableBeyondHeight ==
  BeyondHeight =>
    \A d \in Height(call.tree)..(MaxDepthArg + 1) :
      StrResult(nltk_tree_to_n_bracket_string(call.tree, PyInt(d), 0)) = result

\* C7 witness: a tree of height 5 has been rendered at max_depth 5, and a smaller
\* max_depth would have cut it
C7_Witness ==
  /\ BeyondHeight
  /\ call.tree = TreeLong
  /\ call.depth.n = 5
  /\ result.kind = "return"
  /\ nltk_tree_to_n_bracket_string(call.tree, PyInt(2), 0).str # result.str

(***************************************************************************)
(* C8                                                                      *)
(***************************************************************************)
\* a label at position i: "(" directly followed by a run of [A-Z$] that ends at
\* a whitespace character
LabelAt(s, i) ==
  /\ i <= Len(s)
  /\ s[i] = "("
  /\ LET j == LabelRunEnd(s, i + 1)
     IN  j >= i + 1 /\ j + 1 <= Len(s) /\ IsSpace(s[j + 1])

\* s with every label taken out
RECURSIVE WithoutLabels(_, _)
WithoutLabels(s, i) ==
  IF i > Len(s) THEN <<>>
  ELSE IF LabelAt(s, i) THEN <<"(">> \o WithoutLabels(s, LabelRunEnd(s, i + 1) + 1)
  ELSE <<s[i]>> \o WithoutLabels(s, i + 1)

\* C8 as stated: stripping is idempotent, for remove_non_terminal_labels and for
\* clean_string, and its first application removes every label that directly
\* follows an opening parenthesis.  The code removes a label only when a space
\* follows it: "(S" newline "a)" gives "(Sa)", the label kept.
C8_AsStated ==
  /\ Done("remove_non_terminal_labels") =>
       /\ remove_non_terminal_labels(result.str) = result.str
       /\ result.str = SubSpaces(WithoutLabels(call.text, 1))
  /\ Done("clean_string") =>
       /\ clean_string(result.str) = result.str
       /\ result.str =
            Replace(Replace(SubSpaces(WithoutLabels(call.text, 1)), ")", "}"), "(", "{")

\* stripping is idempotent on every call, and a label survives it only where it
\* ends at a whitespace other than the space
SurvivingLabelEndsAtOtherWhitespace ==
  /\ Done("remove_non_terminal_labels") =>
       /\ remove_non_terminal_labels(result.str) = result.str
       /\ result.str # SubSpaces(WithoutLabels(call.text, 1)) =>
            \E i \in 1..Len(call.text) :
              LabelAt(call.text, i) /\ ~LabelPatternMatchesAt(call.text, i)
  /\ Done("clean_string") => clean_string(result.str) = result.str

(***************************************************************************)
(* C9                                                                      *)
(***************************************************************************)
ValidCall ==
  /\ Done("calculate_ted")
  /\ IsInstanceStr(call.sent1) /\ IsInstanceStr(call.sent2)
  /\ IsValidDepth(call.depth)

\* C9: the distance from A to B is the distance from B to A, at every valid depth
C9_Symmetric ==
  ValidCall =>
    /\ result.kind = "return"
    /\ LET back == calculate_ted(call.sent2, call.sent1, call.depth)
       IN  back.kind = "return" /\ back.value = result.value

\* C9 witness: two trees of different sizes have been compared at 'full' depth
C9_Witness ==
  /\ ValidCall
  /\ call.sent1 = SentenceArg(TreeWord)
  /\ call.sent2 = SentenceArg(TreeRun)
  /\ call.depth = PyStr(FULL)
  /\ result.value > 1

(***************************************************************************)
(* C10                                                                     *)
(***************************************************************************)
\* C10 as stated: for a tree whose nodes of height > 2 have only subtree children
\* (here, moreover, a tree without empty nodes, as a parser returns it) and a
\* max_depth of at least its height, the depth-limited and the full rendering
\* clean to the same skeleton
C10_AsStated ==
  (/\ Done("nltk_tree_to_n_bracket_string")
   /\ call.depth.type = "int"
   /\ call.depth.n >= Height(call.tree)
   /\ ParserShaped(call.tree)
   /\ result.kind = "return") =>
    clean_string(result.str) = clean_string(nltk_tree_to_bracket_string(call.tree))

====
